---- MODULE Spec2Model ----
(***************************************************************************)
(* Model of the imt interface-metadata library: the attribute container    *)
(* (flags, registry dispatch, type-erased payload, wire encoding), the     *)
(* version envelope (Version, the file header and the file behind it) and  *)
(* the bundle of files with its import from and export to archives.        *)
(*                                                                         *)
(* Wide integers do not fit TLC's integers, so a u32 / u64 / u128 is a     *)
(* tuple of 16-bit limbs, most significant limb first; a byte string is a  *)
(* tuple of numbers in 0..255.                                             *)
(***************************************************************************)
EXTENDS Integers, Sequences, FiniteSets, TLC

VARIABLES
  targ,     \* the entity kind Targ of the Attribute<Targ> at hand
  attr,     \* the attribute value at hand
  stream,   \* the bytes to decode next, or the bytes the last encode wrote
  fed,      \* the attribute bytes the environment supplied, field by field
  sent,     \* the attribute the last encode wrote
  result,   \* outcome of the last decode or encode
  op,       \* the last operation
  origin,   \* how the attribute at hand began: "new" or "decode"
  nops,     \* clone / with_flags / flags_mut calls so far
  dc,       \* outcome of the last downcast
  ver_a, ver_b, compat,  \* the last is_compatible call and its answer
  vcall,    \* the last Version::new, Version::parse or Version decode call
  vprev,    \* the Version::new call before it
  loaded,   \* the last Header or File decode: its bytes, the build, the outcome
  files,    \* Bundle.files: the (path, file) entries in the order of the map
  bcall,    \* the last Bundle call: its arguments and what it did
  tar,      \* the archive the last write_tar wrote, and what it wrote it from
  nb        \* Bundle calls so far

vars == <<targ, attr, stream, fed, sent, result, op, origin, nops, dc,
          ver_a, ver_b, compat, vcall, vprev, loaded, files, bcall, tar, nb>>

\* ------------------------------------------------------------------ bounds

\* The declared payload length of a fed attribute differs from the number of
\* payload bytes that follow by at most MaxSlack, in either direction.
MaxSlack == 1

\* Number of flag-changing calls (with_flags, flags_mut) applied to one attribute.
MaxOps == 1

\* Versions compared by is_compatible have major <= MaxMajor, minor <= MaxMinor
\* (plus the largest major and minor the packing allows).
MaxMajor == 2

MaxMinor == 5

\* Texts handed to Version::parse: every text of up to MaxText characters of
\* the alphabet, and some longer ones.
MaxText == 4

\* Calls on one bundle.
MaxCalls == 2

\* Items in a sequence handed to parse_files, entries in an archive read.
MaxItems == 3

\* ------------------------------------------------- fixed-width integer codec

\* u16, little endian.
EncU16(v) == <<v % 256, v \div 256>>

DecU16(b) == b[1] + 256 * b[2]

\* A wide unsigned integer of Len(w) limbs, little endian: the least
\* significant limb (the last of the tuple) goes out first.
RECURSIVE EncLimbs(_)
EncLimbs(w) == IF w = <<>> THEN <<>> ELSE EncLimbs(Tail(w)) \o EncU16(Head(w))

DecLimbs(b) ==
  LET n == Len(b) \div 2
  IN  [i \in 1..n |-> DecU16(<<b[2 * (n - i) + 1], b[2 * (n - i) + 2]>>)]

\* A value no stream of the model is as long as: stands for every length that
\* does not fit TLC's integers.
Huge == 16384 * 65536

\* The number a wide integer denotes, for the comparison with a stream length.
LimbsToNat(w) ==
  LET n == Len(w)
  IN  IF \E i \in 1..(n - 2) : w[i] # 0 THEN Huge
      ELSE IF n >= 2 /\ w[n - 1] >= 16384 THEN Huge
      ELSE (IF n >= 2 THEN w[n - 1] * 65536 ELSE 0) + w[n]

NatToU32(n) == <<n \div 65536, n % 65536>>

NatToU64(n) == <<0, 0, n \div 65536, n % 65536>>

\* Reading n bytes at offset pos of stream s.
CanTake(s, pos, n) == pos + n <= Len(s)

Take(s, pos, n) == SubSeq(s, pos + 1, pos + n)

Ok(v, pos) == [ok |-> TRUE, val |-> v, pos |-> pos, err |-> "none"]

Err(e, pos) == [ok |-> FALSE, val |-> <<>>, pos |-> pos, err |-> e]

\* An unsigned integer of n limbs read from the stream.
DecodeUInt(s, pos, n) ==
  IF CanTake(s, pos, 2 * n)
  THEN Ok(DecLimbs(Take(s, pos, 2 * n)), pos + 2 * n)
  ELSE Err("UnexpectedEnd", pos)

\* ------------------------------------------------------------------- Uuid

MkUuid(hi, lo) == [major |-> hi, minor |-> lo]

NIL == MkUuid(<<0, 0, 0, 0>>, <<0, 0, 0, 0>>)

\* Uuid::encode: the minor half, then the major half, each a u64.
UuidEncode(u) == EncLimbs(u.minor) \o EncLimbs(u.major)

\* Uuid::decode: lo, then hi; minor: lo, major: hi.
UuidOf(lo, hi) ==
  IF ~lo.ok THEN Err(lo.err, lo.pos)
  ELSE IF ~hi.ok THEN Err(hi.err, hi.pos)
  ELSE Ok(MkUuid(hi.val, lo.val), hi.pos)

UuidDecode(s, pos) == UuidOf(DecodeUInt(s, pos, 4), DecodeUInt(s, pos + 8, 4))

\* --------------------------------------------------------- AttributeFlags

RECURSIVE BitAnd(_, _)
BitAnd(a, b) ==
  IF a = 0 \/ b = 0 THEN 0
  ELSE (a % 2) * (b % 2) + 2 * BitAnd(a \div 2, b \div 2)

RECURSIVE BitOr(_, _)
BitOr(a, b) ==
  IF a = 0 THEN b
  ELSE IF b = 0 THEN a
  ELSE (IF a % 2 = 1 \/ b % 2 = 1 THEN 1 ELSE 0) + 2 * BitOr(a \div 2, b \div 2)

And32(x, y) == <<BitAnd(x[1], y[1]), BitAnd(x[2], y[2])>>

Or32(x, y) == <<BitOr(x[1], y[1]), BitOr(x[2], y[2])>>

Not32(x) == <<65535 - x[1], 65535 - x[2]>>

\* const IGNORE = 0x0000_0001
IGNORE == <<0, 1>>

\* const TYPE_MASK = 0xFF80_0000
TYPE_MASK == <<65408, 0>>

empty == <<0, 0>>

\* AttributeFlags::all(): the union of the defined flags.
all == Or32(IGNORE, TYPE_MASK)

contains(flags, f) == And32(flags, f) = f

union(flags, f) == Or32(flags, f)

\* AttributeFlags::from_bits: Some iff no bit outside all() is set.
from_bits_lax(v) == TRUE

from_bits(v) == And32(v, Not32(all)) = empty

\* AttributeFlags::decode: a u32, then from_bits.
FlagsOf(v) ==
  IF ~v.ok THEN Err(v.err, v.pos)
  ELSE IF ~from_bits(v.val) THEN Err("IllegalFlags", v.pos)
  ELSE Ok(v.val, v.pos)

FlagsDecode(s, pos) == FlagsOf(DecodeUInt(s, pos, 2))

FlagsEncode(flags) == EncLimbs(flags)

\* ------------------------------------------------ payload types and codec

\* from_utf8 on the bytes of a decoded String.
RECURSIVE IsUtf8(_)
IsUtf8(b) ==
  LET n == Len(b)
      cont(i) == i <= n /\ b[i] >= 128 /\ b[i] <= 191
      rest(k) == IsUtf8(SubSeq(b, k + 1, n))
  IN  IF n = 0 THEN TRUE
      ELSE IF b[1] < 128 THEN rest(1)
      ELSE IF b[1] >= 194 /\ b[1] <= 223 THEN cont(2) /\ rest(2)
      ELSE IF b[1] = 224 THEN cont(2) /\ b[2] >= 160 /\ cont(3) /\ rest(3)
      ELSE IF b[1] = 237 THEN cont(2) /\ b[2] <= 159 /\ cont(3) /\ rest(3)
      ELSE IF b[1] >= 225 /\ b[1] <= 239 THEN cont(2) /\ cont(3) /\ rest(3)
      ELSE IF b[1] = 240 THEN cont(2) /\ b[2] >= 144 /\ cont(3) /\ cont(4) /\ rest(4)
      ELSE IF b[1] >= 241 /\ b[1] <= 243 THEN cont(2) /\ cont(3) /\ cont(4) /\ rest(4)
      ELSE IF b[1] = 244 THEN cont(2) /\ b[2] <= 143 /\ cont(3) /\ cont(4) /\ rest(4)
      ELSE FALSE

\* String: a u64 byte count, the bytes, which must be UTF-8.
StringEncode(v) == EncLimbs(NatToU64(Len(v))) \o v

StringOf(s, pos, n) ==
  IF ~CanTake(s, pos, n) THEN Err("UnexpectedEnd", pos)
  ELSE IF ~IsUtf8(Take(s, pos, n)) THEN Err("Utf8", pos)
  ELSE Ok(Take(s, pos, n), pos + n)

StringAfter(s, l) ==
  IF ~l.ok THEN Err(l.err, l.pos) ELSE StringOf(s, l.pos, LimbsToNat(l.val))

StringDecode(s, pos) == StringAfter(s, DecodeUInt(s, pos, 4))

\* Vec<String>: a u64 element count, then the elements.
RECURSIVE StringsEncode(_)
StringsEncode(v) ==
  IF v = <<>> THEN <<>> ELSE StringEncode(Head(v)) \o StringsEncode(Tail(v))

RECURSIVE StringsDecode(_, _, _, _)
StringsNext(s, n, acc, e) ==
  IF ~e.ok THEN Err(e.err, e.pos)
  ELSE StringsDecode(s, e.pos, n - 1, Append(acc, e.val))

StringsDecode(s, pos, n, acc) ==
  IF n = 0 THEN Ok(acc, pos) ELSE StringsNext(s, n, acc, StringDecode(s, pos))

\* The fields of each attribute type, in declaration order.
FEnum(n) == [k |-> "enum", n |-> n]

FKind(k) == [k |-> k, n |-> 0]

Schema(ty) ==
  CASE ty = "SafetyHint" -> <<FEnum(3)>>
    [] ty = "OptionType" -> <<FKind("uuid")>>
    [] ty = "PolymorphicOption" -> <<>>
    [] ty = "ItemDoc" -> <<FKind("vecstring")>>
    [] ty = "SubsystemDescriptor" ->
         <<FKind("uuid"), FKind("optu32"), FKind("u16"), FKind("u16")>>
    [] ty = "SystemFunction" -> <<FKind("u16")>>
    [] ty = "ExportInline" -> <<>>
    [] ty = "DefinesBuiltinTypes" -> <<FEnum(2)>>
    [] ty = "ToolComment" -> <<FKind("string")>>
    [] ty = "Align" -> <<FKind("u128")>>
    [] ty = "Synthetic" -> <<>>

\* The encoding of one field. An enum is its variant index as a u32, an
\* Option a tag byte and then the value, a Uuid its minor and major halves.
FieldEncode(f, v) ==
  CASE f.k = "enum" -> EncLimbs(NatToU32(v[1]))
    [] f.k = "u16" -> EncU16(v[1])
    [] f.k = "u128" -> EncLimbs(v)
    [] f.k = "uuid" -> UuidEncode(MkUuid(SubSeq(v, 1, 4), SubSeq(v, 5, 8)))
    [] f.k = "optu32" -> IF v[1] = 0 THEN <<0>> ELSE <<1>> \o EncLimbs(Tail(v))
    [] f.k = "string" -> StringEncode(v)
    [] f.k = "vecstring" -> EncLimbs(NatToU64(Len(v))) \o StringsEncode(v)

EnumOf(n, r) ==
  IF ~r.ok THEN Err(r.err, r.pos)
  ELSE IF LimbsToNat(r.val) >= n THEN Err("UnexpectedVariant", r.pos)
  ELSE Ok(<<LimbsToNat(r.val)>>, r.pos)

UuidFieldOf(r) ==
  IF ~r.ok THEN Err(r.err, r.pos) ELSE Ok(r.val.major \o r.val.minor, r.pos)

SomeOf(r) == IF ~r.ok THEN Err(r.err, r.pos) ELSE Ok(<<1>> \o r.val, r.pos)

OptionDecode(s, pos) ==
  IF ~CanTake(s, pos, 1) THEN Err("UnexpectedEnd", pos)
  ELSE IF s[pos + 1] = 0 THEN Ok(<<0>>, pos + 1)
  ELSE IF s[pos + 1] = 1 THEN SomeOf(DecodeUInt(s, pos + 1, 2))
  ELSE Err("UnexpectedVariant", pos + 1)

\* A count that no stream of the model can hold ends as the first missing
\* element does.
VecAfter(s, l) ==
  IF ~l.ok THEN Err(l.err, l.pos)
  ELSE IF LimbsToNat(l.val) > Len(s) THEN Err("UnexpectedEnd", l.pos)
  ELSE StringsDecode(s, l.pos, LimbsToNat(l.val), <<>>)

FieldDecode(f, s, pos) ==
  CASE f.k = "enum" -> EnumOf(f.n, DecodeUInt(s, pos, 2))
    [] f.k = "u16" ->
         IF CanTake(s, pos, 2) THEN Ok(<<DecU16(Take(s, pos, 2))>>, pos + 2)
         ELSE Err("UnexpectedEnd", pos)
    [] f.k = "u128" -> DecodeUInt(s, pos, 8)
    [] f.k = "uuid" -> UuidFieldOf(UuidDecode(s, pos))
    [] f.k = "optu32" -> OptionDecode(s, pos)
    [] f.k = "string" -> StringDecode(s, pos)
    [] f.k = "vecstring" -> VecAfter(s, DecodeUInt(s, pos, 4))

\* The derived Encode of a type: its fields in order.
RECURSIVE FieldsEncode(_, _)
FieldsEncode(sch, val) ==
  IF sch = <<>> THEN <<>>
  ELSE FieldEncode(Head(sch), Head(val)) \o FieldsEncode(Tail(sch), Tail(val))

\* The derived Decode of a type: its fields in order, the first error ends it.
RECURSIVE FieldsDecode(_, _, _, _)
FieldsNext(sch, s, acc, r) ==
  IF ~r.ok THEN Err(r.err, r.pos)
  ELSE FieldsDecode(Tail(sch), s, r.pos, Append(acc, r.val))

FieldsDecode(sch, s, pos, acc) ==
  IF sch = <<>> THEN Ok(acc, pos)
  ELSE FieldsNext(sch, s, acc, FieldDecode(Head(sch), s, pos))

\* bincode::encode_to_vec(value): the bytes of the value alone.
encode_to_vec(ty, val) == FieldsEncode(Schema(ty), val)

\* bincode::decode_from_slice(bytes): (value, bytes read), or an error.
decode_from_slice(ty, bytes) == FieldsDecode(Schema(ty), bytes, 0, <<>>)

\* <T as Default>::default().
Zero(n) == [i \in 1..n |-> 0]

Default(ty) ==
  CASE ty = "SafetyHint" -> <<<<0>>>>
    [] ty = "OptionType" -> <<Zero(8)>>
    [] ty = "PolymorphicOption" -> <<>>
    [] ty = "ItemDoc" -> <<<<>>>>
    [] ty = "SubsystemDescriptor" -> <<Zero(8), <<0>>, <<0>>, <<0>>>>
    [] ty = "SystemFunction" -> <<<<0>>>>
    [] ty = "ExportInline" -> <<>>
    [] ty = "DefinesBuiltinTypes" -> <<<<0>>>>
    [] ty = "ToolComment" -> <<<<>>>>
    [] ty = "Align" -> <<Zero(8)>>
    [] ty = "Synthetic" -> <<>>

\* --------------------------------------------------------------- registry

\* def_attribute_targets!: the entity kinds.
AttributeTargetKind ==
  {"File", "UseItem", "Struct", "Union", "Enum", "TypeAlias", "Field",
   "Variant", "Const", "Function", "Param"}

\* AttributeType::TARGET: None, or Some(the kinds the type may attach to).
None == [some |-> FALSE, arr |-> {}]

Some(kinds) == [some |-> TRUE, arr |-> kinds]

Reg(ty, id, target) == [ty |-> ty, id |-> id, target |-> target]

\* attribute_types!: the registrations, in the order of the macro's arms.
Registry ==
  << Reg("SafetyHint",
         MkUuid(<<34377, 12, 10522, 22124>>, <<45425, 3491, 13589, 60001>>),
         Some({"Function"})),
     Reg("OptionType",
         MkUuid(<<29760, 17186, 36230, 22051>>, <<37808, 10886, 23033, 52489>>),
         Some({"Struct"})),
     Reg("PolymorphicOption",
         MkUuid(<<12402, 42213, 22926, 21980>>, <<38948, 48065, 55836, 51946>>),
         Some({"Struct"})),
     Reg("ItemDoc",
         MkUuid(<<42403, 52456, 20297, 20612>>, <<38753, 13920, 12553, 32906>>),
         None),
     Reg("SubsystemDescriptor",
         MkUuid(<<20729, 33633, 48118, 24336>>, <<34196, 29524, 46279, 49939>>),
         Some({"File"})),
     Reg("SystemFunction",
         MkUuid(<<49456, 64411, 60735, 21991>>, <<39929, 10977, 25535, 50387>>),
         Some({"Function"})),
     Reg("ExportInline",
         MkUuid(<<57143, 11544, 1117, 23886>>, <<35501, 9947, 768, 50951>>),
         Some({"UseItem"})),
     Reg("DefinesBuiltinTypes",
         MkUuid(<<13836, 45210, 5470, 23497>>, <<44155, 55499, 26210, 26746>>),
         Some({"File"})),
     Reg("ToolComment",
         MkUuid(<<54957, 59256, 37436, 22333>>, <<35976, 38031, 45139, 54427>>),
         Some({"File"})),
     Reg("Align",
         MkUuid(<<51649, 8532, 62337, 23880>>, <<35041, 52785, 55761, 48415>>),
         Some({"Struct", "Union"})),
     Reg("Synthetic",
         MkUuid(<<23884, 60271, 56437, 22556>>, <<47758, 53268, 42864, 37374>>),
         None) >>

Types == {Registry[i].ty : i \in DOMAIN Registry}

Entry(ty) == Registry[CHOOSE i \in DOMAIN Registry : Registry[i].ty = ty]

\* <T as AttributeType>::ID
ID(ty) == Entry(ty).id

\* <T as AttributeType>::TARGET
TARGET(ty) == Entry(ty).target

\* impl_target!: T implements Target<K> for the listed kinds, or for every
\* kind when the registration lists none.
ImplTarget(ty, K) == ~TARGET(ty).some \/ K \in TARGET(ty).arr

\* The guard of one arm of create_attribute_blob's match.
ArmGuard_any_kind(e, K) == TRUE

ArmGuard(e, K) == IF e.target.some THEN K \in e.target.arr ELSE TRUE

\* create_attribute_blob::<K>(id): the first arm whose id pattern and guard
\* match gives a default instance of its type; no arm, None.
create_attribute_blob(K, id) ==
  LET hits == {i \in DOMAIN Registry : Registry[i].id = id /\ ArmGuard(Registry[i], K)}
  IN  IF hits = {} THEN [some |-> FALSE, ty |-> "", val |-> <<>>]
      ELSE LET i == CHOOSE j \in hits : \A k \in hits : j <= k
           IN  [some |-> TRUE, ty |-> Registry[i].ty, val |-> Default(Registry[i].ty)]

\* -------------------------------------------------------------- Attribute

\* enum ErasedAttributeContent { Real(Box<dyn DynAttr>, _), Unknown(Vec<u8>) }
Real(ty, val) == [variant |-> "Real", ty |-> ty, val |-> val, bytes |-> <<>>]

Unknown(bytes) == [variant |-> "Unknown", ty |-> "", val |-> <<>>, bytes |-> bytes]

\* struct Attribute { id, flags, payload }
Attribute(id, flags, payload) == [id |-> id, flags |-> flags, payload |-> payload]

\* No attribute at hand.
Absent ==
  Attribute(NIL, empty, [variant |-> "Absent", ty |-> "", val |-> <<>>, bytes |-> <<>>])

\* Attribute::new
new(ty, x) == Attribute(ID(ty), empty, Real(ty, x))

\* DynAttr::to_bytes
to_bytes(ty, val) == encode_to_vec(ty, val)

\* DynAttr::from_bytes on the outcome d of decode_from_slice: bytes left
\* over in the slice are an error; otherwise the value replaces *self.
from_bytes_keep_default(ty, bytes, d) ==
  IF ~d.ok THEN Err(d.err, d.pos)
  ELSE IF d.pos # Len(bytes) THEN Err("ExtraSlop", d.pos)
  ELSE Ok(Default(ty), d.pos)

from_bytes_no_slop_check(ty, bytes, d) ==
  IF ~d.ok THEN Err(d.err, d.pos) ELSE Ok(d.val, d.pos)

from_bytes_checked(ty, bytes, d) ==
  IF ~d.ok THEN Err(d.err, d.pos)
  ELSE IF d.pos # Len(bytes) THEN Err("ExtraSlop", d.pos)
  ELSE Ok(d.val, d.pos)

from_bytes(ty, bytes) == from_bytes_checked(ty, bytes, decode_from_slice(ty, bytes))

\* The outcome of a decode or an encode. pos: the offset the reader reached;
\* lookup: the registry was consulted; body: the length field was read.
Outcome(status, pos, lookup, body) ==
  [status |-> status, pos |-> pos, lookup |-> lookup, body |-> body]

NoOutcome == Outcome("none", 0, FALSE, FALSE)

Decoded(a, o) == [attr |-> a, out |-> o]

\* ErasedAttributeContent::decode's match on the registry's answer, once the
\* data_len bytes of data end at offset pos.
ContentMatch_always_opaque(flags, id, blob, data, pos, r) ==
  IF blob.some THEN
    IF ~r.ok THEN Decoded(Absent, Outcome(r.err, pos, TRUE, TRUE))
    ELSE Decoded(Attribute(id, flags, Real(blob.ty, r.val)),
                 Outcome("ok", pos, TRUE, TRUE))
  ELSE Decoded(Attribute(id, flags, Unknown(data)), Outcome("ok", pos, TRUE, TRUE))

ContentMatch(flags, id, blob, data, pos, r) ==
  IF blob.some THEN
    IF ~r.ok THEN Decoded(Absent, Outcome(r.err, pos, TRUE, TRUE))
    ELSE Decoded(Attribute(id, flags, Real(blob.ty, r.val)),
                 Outcome("ok", pos, TRUE, TRUE))
  ELSE IF ~contains(flags, IGNORE)
    THEN Decoded(Absent, Outcome("NotRecognized", pos, TRUE, TRUE))
  ELSE Decoded(Attribute(id, flags, Unknown(data)), Outcome("ok", pos, TRUE, TRUE))

\* The data_len bytes after the length field l.
ContentData(flags, id, blob, s, l, data_len) ==
  IF ~CanTake(s, l.pos, data_len)
    THEN Decoded(Absent, Outcome("UnexpectedEnd", l.pos, TRUE, TRUE))
  ELSE ContentMatch(flags, id, blob, Take(s, l.pos, data_len), l.pos + data_len,
                    IF blob.some THEN from_bytes(blob.ty, Take(s, l.pos, data_len))
                    ELSE Err("none", 0))

ContentLen(flags, id, blob, s, l) ==
  IF ~l.ok THEN Decoded(Absent, Outcome(l.err, l.pos, TRUE, FALSE))
  ELSE ContentData(flags, id, blob, s, l, LimbsToNat(l.val))

\* ErasedAttributeContent::decode, with the context (flags, id): the registry,
\* the u32 length, the data, then the match.
ContentDecode(K, flags, id, s, pos) ==
  ContentLen(flags, id, create_attribute_blob(K, id), s, DecodeUInt(s, pos, 2))

AttributeOf(K, s, id, fl) ==
  IF ~id.ok THEN Decoded(Absent, Outcome(id.err, id.pos, FALSE, FALSE))
  ELSE IF ~fl.ok THEN Decoded(Absent, Outcome(fl.err, fl.pos, FALSE, FALSE))
  ELSE ContentDecode(K, fl.val, id.val, s, fl.pos)

\* Attribute::<K>::decode: the id, the flags, then the payload in their context.
AttributeDecode(K, s) == AttributeOf(K, s, UuidDecode(s, 0), FlagsDecode(s, 16))

\* ErasedAttributeContent::encode: the payload bytes behind a u32 length; a
\* length of 2^32 or more is the one encode error.
ContentEncode_as_byte_vec(payload) ==
  LET bytes == IF payload.variant = "Real" THEN to_bytes(payload.ty, payload.val)
               ELSE payload.bytes
  IN  IF Len(bytes) \div 65536 >= 65536 THEN Err("LengthLimit", 0)
      ELSE Ok(EncLimbs(NatToU64(Len(bytes))) \o bytes, 0)

ContentEncode(payload) ==
  LET bytes == IF payload.variant = "Real" THEN to_bytes(payload.ty, payload.val)
               ELSE payload.bytes
  IN  IF Len(bytes) \div 65536 >= 65536 THEN Err("LengthLimit", 0)
      ELSE Ok(EncLimbs(NatToU32(Len(bytes))) \o bytes, 0)

\* The derived Encode of Attribute: id, flags, payload.
AttributeEncode(a) ==
  LET c == ContentEncode(a.payload)
  IN  IF ~c.ok THEN c ELSE Ok(UuidEncode(a.id) \o FlagsEncode(a.flags) \o c.val, 0)

\* The derived Clone of Attribute; the payload through clone_box / Vec::clone.
clone(a) ==
  Attribute(a.id, a.flags,
            IF a.payload.variant = "Real" THEN Real(a.payload.ty, a.payload.val)
            ELSE Unknown(a.payload.bytes))

\* Attribute::with_flags
with_flags(a, additional_flags) ==
  Attribute(a.id, union(a.flags, additional_flags), a.payload)

\* An assignment through the reference flags_mut returns.
flags_mut_assign(a, flags) == Attribute(a.id, flags, a.payload)

\* The outcome of a downcast: absent, or a reference to a value of type ty.
NoRef == [present |-> FALSE, ty |-> "", val |-> <<>>]

SomeRef(ty, val) == [present |-> TRUE, ty |-> ty, val |-> val]

\* The type behind the &dyn Any that `real`, a &Box<dyn DynAttr>, is coerced
\* to in <dyn Any>::downcast_ref(real): the unsizing coercion applies to the
\* referent itself, the Box, not to the value it owns.
AnyTypeOf(payload) == "Box<dyn DynAttr>"

\* <dyn Any>::downcast_ref::<T>: Some iff the value's type is T.
downcast_ref(payload, T) ==
  IF AnyTypeOf(payload) = T THEN SomeRef(T, payload.val) ELSE NoRef

\* Attribute::downcast::<T>
downcast_unchecked(a, T) ==
  IF a.payload.variant = "Real" THEN SomeRef(T, a.payload.val) ELSE NoRef

downcast(a, T) ==
  IF a.id # ID(T) THEN NoRef
  ELSE IF a.payload.variant = "Real" THEN downcast_ref(a.payload, T)
  ELSE NoRef

\* ---------------------------------------------------------------- Version

\* Version::major, Version::minor of the packed u16.
major(v) == v \div 512

minor(v) == v % 512

\* Version::is_compatible
is_compatible_any_minor(self, other) ==
  major(self) = major(other) /\ minor(self) <= minor(other)

is_compatible(self, other) ==
  /\ major(self) = major(other)
  /\ minor(self) <= minor(other)
  /\ (major(self) # 0 \/ minor(self) = minor(other))

\* The outcome of a call that builds a Version: the packed u16, or a fault
\* (an assert! or panic!, or an arithmetic overflow where the build checks it).
Made(v) == [faulted |-> FALSE, why |-> "", val |-> v]

Fault(why) == [faulted |-> TRUE, why |-> why, val |-> 0]

\* major << 9 on a u16: the bits shifted past bit 15 are lost.
Shl9(x) == (x * 512) % 65536

\* Version::new
Version_new_major_unchecked(maj, min) ==
  IF min >= 512 THEN Fault("Minor Version must be less than 512")
  ELSE Made(BitOr(Shl9(maj), min))

Version_new(maj, min) ==
  IF maj >= 128 THEN Fault("Major version must be less than 128")
  ELSE IF min >= 512 THEN Fault("Minor Version must be less than 512")
  ELSE Made(BitOr(Shl9(maj), min))

\* derive(PartialOrd, Ord) on Version(u16): the order of the packed value.
cmp(a, b) == IF a < b THEN "Less" ELSE IF a = b THEN "Equal" ELSE "Greater"

\* derive(Decode) on Version(u16): any u16 on the wire is a Version.
VersionOf(r) == IF r.ok THEN Ok(r.val[1], r.pos) ELSE Err(r.err, r.pos)

VersionDecode(s, pos) == VersionOf(DecodeUInt(s, pos, 1))

\* Version::parse.  A text is a tuple of one-character strings.
Digits == <<"0", "1", "2", "3", "4", "5", "6", "7", "8", "9">>

IsDigit(c) == \E d \in 1..10 : Digits[d] = c

\* (b - b'0') as u16
DigitVal(c) == (CHOOSE d \in 1..10 : Digits[d] = c) - 1

\* acc *= 10; acc += digit, on a u16.  Where the result passes 65535 a build
\* with overflow checks panics and a build without them keeps the low 16 bits.
Overflows(acc, c) == acc * 10 + DigitVal(c) > 65535

Accumulate(acc, c) == (acc * 10 + DigitVal(c)) % 65536

Scanned(n, val) == [faulted |-> FALSE, why |-> "", n |-> n, val |-> val]

ScanFault(why) == [faulted |-> TRUE, why |-> why, n |-> 0, val |-> 0]

\* The first loop: digits up to a '.', which is consumed, or to the end.
RECURSIVE MajorLoop(_, _, _, _)
MajorLoop(buf, n, acc, wraps) ==
  IF ~(n < Len(buf)) THEN Scanned(n, acc)
  ELSE IF IsDigit(buf[n + 1])
       THEN IF Overflows(acc, buf[n + 1]) /\ ~wraps
            THEN ScanFault("attempt to multiply or add with overflow")
            ELSE MajorLoop(buf, n + 1, Accumulate(acc, buf[n + 1]), wraps)
  ELSE IF buf[n + 1] = "." THEN Scanned(n + 1, acc)
  ELSE ScanFault("Expected a version of the form <major>.<minor>")

\* The second loop: digits to the end.
RECURSIVE MinorLoop(_, _, _, _)
MinorLoop(buf, n, acc, wraps) ==
  IF ~(n < Len(buf)) THEN Scanned(n, acc)
  ELSE IF IsDigit(buf[n + 1])
       THEN IF Overflows(acc, buf[n + 1]) /\ ~wraps
            THEN ScanFault("attempt to multiply or add with overflow")
            ELSE MinorLoop(buf, n + 1, Accumulate(acc, buf[n + 1]), wraps)
  ELSE ScanFault("Expected a version of the form <major>.<minor>")

MinorAfter(buf, M, wraps) ==
  IF M.faulted THEN M ELSE MinorLoop(buf, M.n, 0, wraps)

ParsedNew(M, m) ==
  IF M.faulted THEN Fault(M.why)
  ELSE IF m.faulted THEN Fault(m.why)
  ELSE Version_new(M.val, m.val)

Version_parse(v, wraps) ==
  IF ~(Len(v) > 2) THEN Fault("Must have a non-empty major and minor component")
  ELSE ParsedNew(MajorLoop(v, 0, 0, wraps),
                 MinorAfter(v, MajorLoop(v, 0, 0, wraps), wraps))

\* ------------------------------------------------------------ Header, File

\* pub const MAGIC: [u8; 6] = *b"\xFEIMTDB"
MAGIC == <<254, 73, 77, 84, 68, 66>>

\* MagicNumber::decode: six bytes, which must be MAGIC.
MagicDecode_any_six_bytes(s, pos) ==
  IF ~CanTake(s, pos, 6) THEN Err("UnexpectedEnd", pos)
  ELSE Ok("MagicNumber", pos + 6)

MagicDecode(s, pos) ==
  IF ~CanTake(s, pos, 6) THEN Err("UnexpectedEnd", pos)
  ELSE IF Take(s, pos, 6) # MAGIC THEN Err("Invalid Magic Number", pos + 6)
  ELSE Ok("MagicNumber", pos + 6)

\* The types of the file tree: a named type, an Attribute<K>, a Vec<T>.
Ty(name) == [k |-> name, of |-> ""]

AttributeTy(K) == [k |-> "Attribute", of |-> K]

Vec(t) == [k |-> "Vec", of |-> t]

\* The fields of the structs with a derived Encode and Decode, in declaration
\* order.  A struct value is the tuple of its fields' values.
Fields(name) ==
  CASE name = "Header" -> <<Ty("MagicNumber"), Ty("Version")>>
    [] name = "File" ->
         <<Ty("Header"), Ty("Uuid"), Vec(AttributeTy("File")), Vec(Ty("UseItem")),
           Vec(Ty("TypeDef")), Vec(Ty("Value"))>>
    [] name = "UseItem" -> <<Vec(AttributeTy("UseItem")), Vec(Ty("String"))>>

\* Attribute::<K>::decode at offset pos of a longer stream.
AttributeResult(pos, d) ==
  IF d.out.status = "ok" THEN Ok(d.attr, pos + d.out.pos)
  ELSE Err(d.out.status, pos + d.out.pos)

AttributeAt(K, s, pos) ==
  AttributeResult(pos, AttributeDecode(K, SubSeq(s, pos + 1, Len(s))))

\* TypeDef and Value begin with name: String; what follows the name is outside
\* the model, whose files hold no type definitions and no values.
NamedItemOf(r) == IF ~r.ok THEN Err(r.err, r.pos) ELSE Err("Unmodelled", r.pos)

RECURSIVE TyDecode(_, _, _)
RECURSIVE StructDecode(_, _, _, _)
RECURSIVE ElemsDecode(_, _, _, _, _)

\* The derived Decode of a struct: its fields in order, the first error ends it.
StructNext(fields, s, acc, r) ==
  IF ~r.ok THEN Err(r.err, r.pos)
  ELSE StructDecode(Tail(fields), s, r.pos, Append(acc, r.val))

StructDecode(fields, s, pos, acc) ==
  IF fields = <<>> THEN Ok(acc, pos)
  ELSE StructNext(fields, s, acc, TyDecode(Head(fields), s, pos))

\* Vec<T>: a u64 element count, then the elements, the first error ends it.
ElemsNext(t, s, n, acc, r) ==
  IF ~r.ok THEN Err(r.err, r.pos)
  ELSE ElemsDecode(t, s, r.pos, n - 1, Append(acc, r.val))

ElemsDecode(t, s, pos, n, acc) ==
  IF n = 0 THEN Ok(acc, pos) ELSE ElemsNext(t, s, n, acc, TyDecode(t, s, pos))

VecOf(t, s, l) ==
  IF ~l.ok THEN Err(l.err, l.pos)
  ELSE ElemsDecode(t, s, l.pos, LimbsToNat(l.val), <<>>)

TyDecode(t, s, pos) ==
  CASE t.k = "MagicNumber" -> MagicDecode(s, pos)
    [] t.k = "Version" -> VersionDecode(s, pos)
    [] t.k = "Uuid" -> UuidDecode(s, pos)
    [] t.k = "String" -> StringDecode(s, pos)
    [] t.k = "Attribute" -> AttributeAt(t.of, s, pos)
    [] t.k = "Vec" -> VecOf(t.of, s, DecodeUInt(s, pos, 4))
    [] t.k \in {"Header", "File", "UseItem"} -> StructDecode(Fields(t.k), s, pos, <<>>)
    [] t.k \in {"TypeDef", "Value"} -> NamedItemOf(StringDecode(s, pos))

\* The derived Encode: a struct's fields in order, a Vec's count and elements.
RECURSIVE TyEncode(_, _)
RECURSIVE SeqEncode(_, _)
SeqEncode(ts, vs) ==
  IF vs = <<>> THEN <<>>
  ELSE TyEncode(Head(ts), Head(vs)) \o SeqEncode(Tail(ts), Tail(vs))

TyEncode(t, v) ==
  CASE t.k = "MagicNumber" -> MAGIC
    [] t.k = "Version" -> EncU16(v)
    [] t.k = "Uuid" -> UuidEncode(v)
    [] t.k = "String" -> StringEncode(v)
    [] t.k = "Attribute" -> AttributeEncode(v).val
    [] t.k = "Vec" ->
         EncLimbs(NatToU64(Len(v))) \o SeqEncode([i \in 1..Len(v) |-> t.of], v)
    [] t.k \in {"Header", "File", "UseItem"} -> SeqEncode(Fields(t.k), v)

\* Header::decode
HeaderDecode(s, pos) == TyDecode(Ty("Header"), s, pos)

\* bincode::decode_from_std_read::<File>: the file from the start of the
\* reader's bytes; bytes after it are left unread.
FileDecode(s) == TyDecode(Ty("File"), s, 0)

\* bincode::encode_into_std_write(file)
FileEncode(f) == TyEncode(Ty("File"), f)

\* struct File { header, file_id, attributes, uses, types, values }
File(version, file_id, attributes, uses) ==
  <<<<"MagicNumber", version>>, file_id, attributes, uses, <<>>, <<>>>>

\* CURRENT_VERSION = Version::parse("<CARGO_PKG_VERSION_MAJOR>.<..._MINOR>"):
\* the version of the package that is built, evaluated at compile time.
CURRENT_VERSION(pkg) == Version_parse(pkg, FALSE).val

\* Versions in the headers of the files fed: 0.1, 1.0, 1.2, 127.511.
FileVersions == {1, 512, 514, 65535}

\* Files: one with nothing in it, per header version, and one with a known
\* attribute, an unknown ignorable one and a use item.
EmptyFile(version) == File(version, NIL, <<>>, <<>>)

FullFile ==
  File(512, MkUuid(<<1, 2, 3, 4>>, <<5, 6, 7, 65535>>),
       <<new("ToolComment", <<<<72, 105>>>>),
         Attribute(NIL, IGNORE, Unknown(<<7>>))>>,
       <<<<<<new("Synthetic", <<>>)>>, <<<<109>>, <<>>>>>>>>)

\* A file that encodes but does not decode: its attribute is unknown and not
\* ignorable.
UnreadableFile == File(512, NIL, <<Attribute(NIL, empty, Unknown(<<>>))>>, <<>>)

SampleFiles == {EmptyFile(v) : v \in FileVersions} \cup {FullFile}

\* b with its i-th byte replaced by x.
Patch(b, i, x) == [b EXCEPT ![i] = x]

\* What the readers of the bundle's callers give: two files, a file that does
\* not decode, a bad magic.
Sources ==
  {FileEncode(EmptyFile(1)), FileEncode(FullFile), FileEncode(UnreadableFile),
   Patch(FileEncode(EmptyFile(1)), 1, 0)}

\* FileDecode of each of them, and FileEncode of each file they hold,
\* computed once.
SourceFile == [b \in Sources |-> FileDecode(b)]

FileBytes ==
  [f \in {SourceFile[b].val : b \in {x \in Sources : SourceFile[x].ok}} |-> FileEncode(f)]

decode_from_std_read(bytes) ==
  IF bytes \in DOMAIN SourceFile THEN SourceFile[bytes] ELSE FileDecode(bytes)

encode_into_std_write(file) ==
  IF file \in DOMAIN FileBytes THEN FileBytes[file] ELSE FileEncode(file)

\* ------------------------------------------------------------------ Bundle

\* A Path is a tuple of segments, a segment (a String) a tuple of
\* one-character strings.  Bundle.files, an IndexMap, is the tuple of its
\* (path, file) entries in the order of the map.
Stored(path, file) == [path |-> path, file |-> file]

\* Path::starts_with
starts_with(self, other) ==
  IF Len(self) < Len(other) THEN FALSE
  ELSE SubSeq(self, 1, Len(other)) = other

\* Bundle::get
get(fs, path) ==
  IF \E i \in 1..Len(fs) : fs[i].path = path
  THEN [some |-> TRUE, file |-> fs[CHOOSE i \in 1..Len(fs) : fs[i].path = path].file]
  ELSE [some |-> FALSE, file |-> <<>>]

add_file_always_appends(fs, path, file) == Append(fs, Stored(path, file))

\* Bundle::add_file: IndexMap::insert(path, file).  A key already in the map
\* keeps its place and gets the new value; a new key goes to the end.
add_file(fs, path, file) ==
  IF get(fs, path).some
  THEN [i \in 1..Len(fs) |-> IF fs[i].path = path THEN Stored(path, file) ELSE fs[i]]
  ELSE Append(fs, Stored(path, file))

\* What a call on the bundle gives: the map afterwards and Ok or the error.
Done(fs, status) == [files |-> fs, status |-> status, pulled |-> 0]

\* Bundle::parse_file: decode, `?`, then add_file.
ParsedFile(fs, path, d) ==
  IF ~d.ok THEN Done(fs, d.err) ELSE Done(add_file(fs, path, d.val), "ok")

parse_file(fs, path, bytes) == ParsedFile(fs, path, decode_from_std_read(bytes))

\* An item of the sequence handed to parse_files: Err(io::Error), or
\* Ok((path, reader)) with the bytes the reader gives.
IoError == [io |-> TRUE, path |-> <<>>, bytes |-> <<>>]

Item(path, bytes) == [io |-> FALSE, path |-> path, bytes |-> bytes]

RECURSIVE parse_files(_, _, _)
ParsedNext_skips_failures(items, i, r) ==
  parse_files(r.files, items, i + 1)

\* Bundle::parse_files: the for loop from its i-th item on; `pulled` counts the
\* items taken from the iterator.
ParsedNext(items, i, r) ==
  IF r.status # "ok" THEN [r EXCEPT !.pulled = i]
  ELSE parse_files(r.files, items, i + 1)

parse_files(fs, items, i) ==
  IF i > Len(items) THEN [Done(fs, "ok") EXCEPT !.pulled = Len(items)]
  ELSE IF items[i].io THEN [Done(fs, "Io") EXCEPT !.pulled = i]
  ELSE ParsedNext(items, i, parse_file(fs, items[i].path, items[i].bytes))

\* std::path::MAIN_SEPARATOR, on a Unix target.
MAIN_SEPARATOR == "/"

\* ".imt"
IMT == <<".", "i", "m", "t">>

strip_suffix_unchecked(name) ==
  [some |-> TRUE, val |-> SubSeq(name, 1, Len(name) - Len(IMT))]

\* str::strip_suffix(".imt")
strip_suffix(name) ==
  IF Len(name) >= Len(IMT) /\ SubSeq(name, Len(name) - Len(IMT) + 1, Len(name)) = IMT
  THEN [some |-> TRUE, val |-> SubSeq(name, 1, Len(name) - Len(IMT))]
  ELSE [some |-> FALSE, val |-> <<>>]

\* str::split(MAIN_SEPARATOR): the pieces between the separators, empty ones
\* included; cur is the piece being read.
RECURSIVE split(_, _)
split(str, cur) ==
  IF str = <<>> THEN <<cur>>
  ELSE IF Head(str) = MAIN_SEPARATOR THEN <<cur>> \o split(Tail(str), <<>>)
  ELSE split(Tail(str), Append(cur, Head(str)))

\* An entry of the archive read: kind "io_error" (the entry or its path is an
\* Err), "not_utf8" (to_str() is None), or "ok" with its name and data.
TarEntry(kind, name, bytes) == [kind |-> kind, name |-> name, bytes |-> bytes]

\* parse_tar's filter_map over the entries: the items it hands to parse_files.
RECURSIVE TarItems(_, _)
TarItems(prefix, entries) ==
  IF entries = <<>> THEN <<>>
  ELSE IF Head(entries).kind = "io_error"
    THEN <<IoError>> \o TarItems(prefix, Tail(entries))
  ELSE IF Head(entries).kind = "not_utf8" \/ ~strip_suffix(Head(entries).name).some
    THEN TarItems(prefix, Tail(entries))
  ELSE <<Item(prefix \o split(strip_suffix(Head(entries).name).val, <<>>),
               Head(entries).bytes)>>
       \o TarItems(prefix, Tail(entries))

\* Bundle::parse_tar
parse_tar(fs, prefix, entries) == parse_files(fs, TarItems(prefix, entries), 1)

\* PathBuf::push(segment): an absolute segment replaces the path; otherwise a
\* separator goes in unless the path is empty or ends with one.
push(path, seg) ==
  IF seg # <<>> /\ Head(seg) = MAIN_SEPARATOR THEN seg
  ELSE IF path # <<>> /\ path[Len(path)] # MAIN_SEPARATOR
    THEN path \o <<MAIN_SEPARATOR>> \o seg
  ELSE path \o seg

\* path.iter().collect::<PathBuf>()
RECURSIVE collect(_, _)
collect(segs, path) ==
  IF segs = <<>> THEN path ELSE collect(Tail(segs), push(path, Head(segs)))

\* The path up to the end of its file name: without its trailing separators.
RECURSIVE file_name_end(_)
file_name_end(path) ==
  IF path # <<>> /\ path[Len(path)] = MAIN_SEPARATOR
  THEN file_name_end(SubSeq(path, 1, Len(path) - 1))
  ELSE path

\* PathBuf::add_extension("imt"): nothing is added to a path with no file
\* name, which the empty path and the root are; otherwise the path is cut at
\* the end of its file name and ".imt" goes there.
add_extension(path) ==
  IF file_name_end(path) = <<>> THEN path ELSE file_name_end(path) \o IMT

\* What one call of the supplier did: the local path it was given, the archive
\* entry name (write_tar), the bytes the writer callback wrote, Ok or Err.
Visit(ok, path, name, bytes) ==
  [ok |-> ok, path |-> path, name |-> name, bytes |-> bytes]

\* The supplier handed to write_files, at its k-th call.  A caller's callback
\* runs the writer and returns Ok, or returns an Err at call fail_at.
\* write_tar's closure names the entry and appends it; the tar crate is given
\* the empty name for an empty local path and either refuses it (an Err) or
\* takes it (accepts_empty).
supplier(sup, k, local, file) ==
  IF sup.kind = "callback"
  THEN Visit(sup.fail_at # k, local, <<>>,
             IF sup.fail_at # k THEN encode_into_std_write(file) ELSE <<>>)
  ELSE IF add_extension(collect(local, <<>>)) = <<>> /\ ~sup.accepts_empty
  THEN Visit(FALSE, local, <<>>, <<>>)
  ELSE Visit(TRUE, local, add_extension(collect(local, <<>>)), encode_into_std_write(file))

Wrote(status, visited) == [status |-> status, visited |-> visited]

\* Bundle::write_files: the for loop from the i-th entry on.  split_at panics
\* on a key shorter than the prefix, assert_eq! on a key that does not begin
\* with it.
RECURSIVE write_files(_, _, _, _, _)
WroteNext(fs, prefix, sup, i, visited, v) ==
  IF ~v.ok THEN Wrote("Io", Append(visited, v))
  ELSE write_files(fs, prefix, sup, i + 1, Append(visited, v))

write_files(fs, prefix, sup, i, visited) ==
  IF i > Len(fs) THEN Wrote("ok", visited)
  ELSE IF Len(prefix) > Len(fs[i].path) THEN Wrote("panic", visited)
  ELSE IF SubSeq(fs[i].path, 1, Len(prefix)) # prefix THEN Wrote("panic", visited)
  ELSE WroteNext(fs, prefix, sup, i, visited,
                 supplier(sup, Len(visited) + 1,
                          SubSeq(fs[i].path, Len(prefix) + 1, Len(fs[i].path)),
                          fs[i].file))

Callback(fail_at) == [kind |-> "callback", fail_at |-> fail_at, accepts_empty |-> FALSE]

\* Bundle::write_tar
TarSupplier(accepts_empty) ==
  [kind |-> "tar", fail_at |-> 0, accepts_empty |-> accepts_empty]

write_tar(fs, prefix, accepts_empty) ==
  write_files(fs, prefix, TarSupplier(accepts_empty), 1, <<>>)

\* ----------------------------------------------------------------- inputs

\* Values of each attribute type handed to Attribute::new.
Samples(ty) ==
  CASE ty = "SafetyHint" -> {<<<<0>>>>, <<<<2>>>>}
    [] ty = "OptionType" -> {<<Zero(8)>>, <<<<1, 2, 3, 4, 5, 6, 7, 65535>>>>}
    [] ty = "PolymorphicOption" -> {<<>>}
    [] ty = "ItemDoc" -> {<<<<>>>>, <<<<<<72, 105>>, <<>>, <<195, 169>>>>>>}
    [] ty = "SubsystemDescriptor" ->
         {<<Zero(8), <<0>>, <<0>>, <<0>>>>,
          <<<<9, 8, 7, 6, 5, 4, 3, 2>>, <<1, 40000, 7>>, <<517>>, <<300>>>>}
    [] ty = "SystemFunction" -> {<<<<0>>>>, <<<<4660>>>>}
    [] ty = "ExportInline" -> {<<>>}
    [] ty = "DefinesBuiltinTypes" -> {<<<<0>>>>, <<<<1>>>>}
    [] ty = "ToolComment" -> {<<<<>>>>, <<<<111, 107>>>>}
    [] ty = "Align" -> {<<Zero(8)>>, <<<<65535, 0, 0, 0, 0, 0, 0, 16>>>>}
    [] ty = "Synthetic" -> {<<>>}

\* Ids no registration carries: the nil id, and ItemDoc's id with one bit changed.
UnregisteredIds ==
  {NIL, MkUuid(<<42403, 52456, 20297, 20612>>, <<38753, 13920, 12553, 32907>>)}

FedIds == {Registry[i].id : i \in DOMAIN Registry} \cup UnregisteredIds

\* Flag words on the wire: none, IGNORE, a bit of TYPE_MASK, all defined bits,
\* an undefined low bit, an undefined high bit beside IGNORE.
FedFlags == {<<0, 0>>, <<0, 1>>, <<128, 0>>, <<65408, 1>>, <<0, 2>>, <<64, 1>>}

\* Payload bytes that are no value's encoding: nothing, one byte, an enum
\* index out of range, a string that is not UTF-8.
RawPayloads == {<<>>, <<1>>, <<3, 0, 0, 0>>, <<1, 0, 0, 0, 0, 0, 0, 0, 255>>}

RECURSIVE Pow2(_)
Pow2(i) == IF i = 0 THEN 1 ELSE 2 * Pow2(i - 1)

\* Flag words handed to AttributeFlags::decode alone: every single bit, every
\* bit at once, and the words fed with attributes.
FlagWords ==
  {<<Pow2(i), 0>> : i \in 0..15} \cup {<<0, Pow2(i)>> : i \in 0..15}
    \cup {<<65535, 65535>>} \cup FedFlags

Payload(shape, ty, bytes) == [shape |-> shape, ty |-> ty, bytes |-> bytes]

\* Payloads fed under an id: for the type registered under it, the encoding
\* of a value ("exact"), that encoding and one more byte ("trailing"), that
\* encoding less its last byte ("truncated"); and the raw payloads.
PayloadChoices(id) ==
  LET tys == {t \in Types : ID(t) = id}
      encs == UNION {{Payload("exact", t, to_bytes(t, x)) : x \in Samples(t)} : t \in tys}
  IN  encs
      \cup {Payload("trailing", e.ty, e.bytes \o <<0>>) : e \in encs}
      \cup {Payload("truncated", e.ty, SubSeq(e.bytes, 1, Len(e.bytes) - 1)) :
              e \in {x \in encs : x.bytes # <<>>}}
      \cup {Payload("raw", "", b) : b \in RawPayloads}

NoFed == [id |-> NIL, flags |-> empty, declared |-> 0,
          payload |-> Payload("none", "", <<>>), bytes |-> <<>>]

\* The wire form of one attribute: 16-byte id, 4-byte flags, 4-byte length,
\* payload bytes.
Wire(id, flags, declared, bytes) ==
  UuidEncode(id) \o EncLimbs(flags) \o EncLimbs(NatToU32(declared)) \o bytes

\* Versions compared: small majors and minors, and the largest of each.
Versions ==
  {M * 512 + m : M \in (0..MaxMajor) \cup {127}, m \in (0..MaxMinor) \cup {511}}

\* Arguments of Version::new: small ones, the largest inside each bound, the
\* first outside it, and the largest u16.
NewMajors == (0..MaxMajor) \cup {127, 128, 65535}

NewMinors == (0..MaxMinor) \cup {511, 512, 65535}

TextAlphabet == {"0", "1", "9", ".", "x"}

\* Longer texts: the largest version, a bound passed by one, a bound passed by
\* far, a number past the u16 range, two dots, no dot.
LongTexts ==
  {<<"1", "2", "7", ".", "5", "1", "1">>,
   <<"1", "2", "8", ".", "0">>,
   <<"0", ".", "5", "1", "2">>,
   <<"9", "9", "9", "9", ".", "0">>,
   <<"6", "5", "5", "3", "7", ".", "0">>,
   <<"1", ".", "6", "5", "5", "3", "8">>,
   <<"1", ".", "2", ".", "3", "0">>,
   <<"0", "0", "1", "2", "7">>}

Texts == UNION {[1..k -> TextAlphabet] : k \in 0..MaxText} \cup LongTexts

NoCall == [fn |-> "none", maj |-> 0, min |-> 0, text |-> <<>>, wraps |-> FALSE,
           out |-> Made(0)]

\* Package versions a build may have: one before and one after stability.
PkgVersions == {<<"0", ".", "1">>, <<"1", ".", "0">>}

\* Bytes handed to a decode: the encodings of the files; every proper prefix
\* of two of them; each with one byte of the magic changed; one with bytes
\* after the file; one whose types count is not zero; the unreadable file.
FileInputs ==
  {FileEncode(f) : f \in SampleFiles}
  \cup UNION {{SubSeq(FileEncode(f), 1, n) : n \in 0..(Len(FileEncode(f)) - 1)} :
                f \in {EmptyFile(512), FullFile}}
  \cup UNION {{Patch(FileEncode(f), i, x) :
                  f \in {EmptyFile(1), FullFile}, x \in {0, 255, MAGIC[i] + 1}} :
                i \in 1..6}
  \cup {FileEncode(EmptyFile(1)) \o <<0>>,
        Patch(SubSeq(FileEncode(EmptyFile(1)), 1, 48), 41, 1),
        FileEncode(UnreadableFile)}

NoLoad == [fn |-> "none", bytes |-> <<>>, current |-> 0, res |-> Err("none", 0)]

\* Path segments.
SegA == <<"a">>

SegB == <<"b">>

SegMod == <<"m", "o", "d">>

SegSub == <<"s", "u", "b">>

SamplePaths == {<<>>, <<SegA>>, <<SegB>>, <<SegA, SegB>>, <<SegMod, SegSub>>}

\* The prefixes a caller passes to write_files, parse_tar and write_tar.
Prefixes == {<<>>, <<SegA>>}

\* Sequences handed to parse_files.
ItemPool ==
  {IoError,
   Item(<<SegA>>, FileEncode(EmptyFile(1))),
   Item(<<SegA>>, FileEncode(FullFile)),
   Item(<<SegB>>, FileEncode(EmptyFile(1))),
   Item(<<SegA, SegB>>, FileEncode(UnreadableFile))}

ItemSeqs == UNION {[1..k -> ItemPool] : k \in 0..MaxItems}

\* Entry names: "mod/sub.imt", "readme.txt", "b.imt" and the bare ".imt".
NameModSub == SegMod \o <<"/">> \o SegSub \o IMT

NameReadme == <<"r", "e", "a", "d", "m", "e", ".", "t", "x", "t">>

EntryPool ==
  {TarEntry("ok", NameModSub, FileEncode(FullFile)),
   TarEntry("ok", NameReadme, FileEncode(UnreadableFile)),
   TarEntry("ok", SegB \o IMT, FileEncode(EmptyFile(1))),
   TarEntry("ok", SegB \o IMT, FileEncode(UnreadableFile)),
   TarEntry("ok", IMT, FileEncode(EmptyFile(1))),
   TarEntry("not_utf8", <<>>, FileEncode(UnreadableFile)),
   TarEntry("io_error", <<>>, <<>>)}

Archives == UNION {[1..k -> EntryPool] : k \in 0..MaxItems}

\* The archive a write_tar left, as the entries a reader of it meets.
Archived(visited) ==
  [i \in 1..Len(SelectSeq(visited, LAMBDA v : v.ok)) |->
     TarEntry("ok", SelectSeq(visited, LAMBDA v : v.ok)[i].name,
              SelectSeq(visited, LAMBDA v : v.ok)[i].bytes)]

\* The last call on the bundle: its arguments, the bundle before it and what
\* it returned; tarred tells whether a parse_tar has filled the bundle.
NoBundleCall ==
  [fn |-> "none", prefix |-> <<>>, path |-> <<>>, items |-> <<>>, entries |-> <<>>,
   fail_at |-> 0, before |-> <<>>, status |-> "none", pulled |-> 0, visited |-> <<>>,
   reimport |-> FALSE, tarred |-> FALSE, file |-> <<>>]

NoTar == [written |-> FALSE, prefix |-> <<>>, stored |-> <<>>, status |-> "none",
          entries |-> <<>>]

\* ------------------------------------------------------------ state machine

Init ==
  /\ targ = "none"
  /\ attr = Absent
  /\ stream = <<>>
  /\ fed = NoFed
  /\ sent = Absent
  /\ result = NoOutcome
  /\ op = "init"
  /\ origin = "none"
  /\ nops = 0
  /\ dc = NoRef
  /\ ver_a = 0
  /\ ver_b = 0
  /\ compat = FALSE
  /\ vcall = NoCall
  /\ vprev = NoCall
  /\ loaded = NoLoad
  /\ files = <<>>
  /\ bcall = NoBundleCall
  /\ tar = NoTar
  /\ nb = 0

verVars == <<ver_a, ver_b, compat>>

attrVars == <<targ, attr, stream, fed, sent, result, origin, nops, dc>>

\* The state outside the attribute container and is_compatible.
bundleVars == <<files, bcall, tar, nb>>

otherVars == <<vcall, vprev, loaded, bundleVars>>

HasAttr == attr.payload.variant # "Absent"

\* The environment supplies the bytes of one attribute of an entity of kind K.
Feed ==
  /\ op = "init"
  /\ \E K \in AttributeTargetKind, id \in FedIds, fl \in FedFlags :
       \E p \in PayloadChoices(id) :
         \E d \in {n \in (Len(p.bytes) - MaxSlack)..(Len(p.bytes) + MaxSlack) : n >= 0} :
           /\ targ' = K
           /\ stream' = Wire(id, fl, d, p.bytes)
           /\ fed' = [id |-> id, flags |-> fl, declared |-> d, payload |-> p,
                      bytes |-> Wire(id, fl, d, p.bytes)]
  /\ op' = "feed"
  /\ UNCHANGED <<attr, sent, result, origin, nops, dc, verVars, otherVars>>

\* Attribute::<K>::new(x), for a type T: Target<K>.
New ==
  /\ op = "init"
  /\ \E K \in AttributeTargetKind, T \in Types :
       /\ ImplTarget(T, K)
       /\ \E x \in Samples(T) :
            /\ targ' = K
            /\ attr' = new(T, x)
  /\ op' = "new"
  /\ origin' = "new"
  /\ UNCHANGED <<stream, fed, sent, result, nops, dc, verVars, otherVars>>

\* Attribute::<targ>::decode on the stream.
Decode ==
  /\ op \in {"feed", "encode"}
  /\ result.status \in {"none", "ok"}
  /\ attr' = AttributeDecode(targ, stream).attr
  /\ result' = AttributeDecode(targ, stream).out
  /\ op' = "decode"
  /\ origin' = IF op = "feed" THEN "decode" ELSE origin
  /\ UNCHANGED <<targ, stream, fed, sent, nops, dc, verVars, otherVars>>

\* Attribute::encode of the attribute at hand.
Encode ==
  /\ HasAttr
  /\ op \in {"new", "decode", "clone", "with_flags", "flags_mut"}
  /\ sent = Absent
  /\ LET r == AttributeEncode(attr)
     IN  /\ stream' = r.val
         /\ result' = Outcome(IF r.ok THEN "ok" ELSE r.err, 0, FALSE, FALSE)
  /\ sent' = attr
  /\ op' = "encode"
  /\ UNCHANGED <<targ, attr, fed, origin, nops, dc, verVars, otherVars>>

CanModify ==
  /\ HasAttr
  /\ op \in {"new", "decode", "clone", "with_flags", "flags_mut"}
  /\ sent = Absent
  /\ nops < MaxOps

\* Attribute::clone; the clone is the attribute at hand from here on.
Clone ==
  /\ CanModify
  /\ attr' = clone(attr)
  /\ op' = "clone"
  /\ nops' = nops + 1
  /\ fed' = NoFed
  /\ stream' = <<>>
  /\ result' = NoOutcome
  /\ UNCHANGED <<targ, sent, origin, dc, verVars, otherVars>>

\* Attribute::with_flags(additional_flags), with flags the crate defines.
WithFlags ==
  /\ CanModify
  /\ \E f \in {IGNORE, <<128, 0>>} : attr' = with_flags(attr, f)
  /\ op' = "with_flags"
  /\ nops' = nops + 1
  /\ fed' = NoFed
  /\ stream' = <<>>
  /\ result' = NoOutcome
  /\ UNCHANGED <<targ, sent, origin, dc, verVars, otherVars>>

\* *attr.flags_mut() = flags: any AttributeFlags value, from_bits_retain
\* included.
FlagsMut ==
  /\ CanModify
  /\ \E f \in {empty, IGNORE, <<0, 2>>} : attr' = flags_mut_assign(attr, f)
  /\ op' = "flags_mut"
  /\ nops' = nops + 1
  /\ fed' = NoFed
  /\ stream' = <<>>
  /\ result' = NoOutcome
  /\ UNCHANGED <<targ, sent, origin, dc, verVars, otherVars>>

\* attr.downcast::<T>(), for a type T: Target<targ>.
Downcast ==
  /\ HasAttr
  /\ op \in {"new", "decode", "clone"}
  /\ \E T \in Types :
       /\ ImplTarget(T, targ)
       /\ dc' = [downcast(attr, T) EXCEPT !.ty = T]
  /\ op' = "downcast"
  /\ UNCHANGED <<targ, attr, stream, fed, sent, result, origin, nops, verVars, otherVars>>

\* AttributeFlags::decode on the four bytes of a flag word.
DecodeFlags ==
  /\ op = "init"
  /\ \E v \in FlagWords :
       /\ stream' = EncLimbs(v)
       /\ fed' = [NoFed EXCEPT !.flags = v, !.bytes = EncLimbs(v)]
       /\ attr' = [Absent EXCEPT !.flags =
                     IF FlagsDecode(EncLimbs(v), 0).ok
                     THEN FlagsDecode(EncLimbs(v), 0).val ELSE empty]
       /\ result' = Outcome(IF FlagsDecode(EncLimbs(v), 0).ok THEN "ok"
                            ELSE FlagsDecode(EncLimbs(v), 0).err,
                            FlagsDecode(EncLimbs(v), 0).pos, FALSE, FALSE)
  /\ op' = "flags_decode"
  /\ UNCHANGED <<targ, sent, origin, nops, dc, verVars, otherVars>>

\* a.is_compatible(b)
IsCompatible ==
  /\ op = "init"
  /\ \E a \in Versions, b \in Versions :
       /\ ver_a' = a
       /\ ver_b' = b
       /\ compat' = is_compatible(a, b)
  /\ op' = "is_compatible"
  /\ UNCHANGED <<attrVars, otherVars>>

\* Version::new(maj, min); the call before it is kept for comparison.
VersionNew ==
  /\ op = "init" \/ (op = "version_new" /\ vprev.fn = "none")
  /\ \E maj \in NewMajors, min \in NewMinors :
       vcall' = [NoCall EXCEPT !.fn = "new", !.maj = maj, !.min = min,
                               !.out = Version_new(maj, min)]
  /\ vprev' = vcall
  /\ op' = "version_new"
  /\ UNCHANGED <<attrVars, verVars, loaded, bundleVars>>

\* Version::parse(v), in a build with (wraps = FALSE) or without overflow
\* checks.
VersionParse ==
  /\ op = "init"
  /\ \E v \in Texts, wraps \in BOOLEAN :
       vcall' = [NoCall EXCEPT !.fn = "parse", !.text = v, !.wraps = wraps,
                               !.out = Version_parse(v, wraps)]
  /\ op' = "version_parse"
  /\ UNCHANGED <<attrVars, verVars, vprev, loaded, bundleVars>>

\* Version decoded from the two bytes lo, hi.
DecodeVersion ==
  /\ op = "init"
  /\ \E lo \in 0..255, hi \in 0..255 :
       vcall' = [NoCall EXCEPT !.fn = "decode", !.maj = hi, !.min = lo,
                               !.out = Made(VersionDecode(<<lo, hi>>, 0).val)]
  /\ op' = "version_decode"
  /\ UNCHANGED <<attrVars, verVars, vprev, loaded, bundleVars>>

\* Header::decode on the bytes.
DecodeHeader ==
  /\ op = "init"
  /\ \E b \in FileInputs :
       loaded' = [fn |-> "header", bytes |-> b, current |-> 0,
                  res |-> HeaderDecode(b, 0)]
  /\ op' = "decode_header"
  /\ UNCHANGED <<attrVars, verVars, vcall, vprev, bundleVars>>

\* File decoded from the bytes, in a build of package version pkg.
DecodeFile ==
  /\ op = "init"
  /\ \E b \in FileInputs, pkg \in PkgVersions :
       loaded' = [fn |-> "file", bytes |-> b, current |-> CURRENT_VERSION(pkg),
                  res |-> FileDecode(b)]
  /\ op' = "decode_file"
  /\ UNCHANGED <<attrVars, verVars, vcall, vprev, bundleVars>>

\* The calls on the bundle that Init's Bundle::create() made.
\* Up to MaxCalls calls fill the bundle; a write may follow them.
CanFill ==
  /\ op \in {"init", "add_file", "parse_file", "parse_files", "parse_tar"}
  /\ nb < MaxCalls
  /\ ~bcall.reimport

CanWrite ==
  /\ op \in {"init", "add_file", "parse_file", "parse_files", "parse_tar"}
  /\ ~bcall.reimport

nonBundleVars == <<attrVars, verVars, vcall, vprev, loaded>>

\* bundle.add_file(path, file)
AddFile ==
  /\ CanFill
  /\ \E path \in SamplePaths, file \in {EmptyFile(1), FullFile} :
       /\ files' = add_file(files, path, file)
       /\ bcall' = [NoBundleCall EXCEPT !.fn = "add_file", !.path = path, !.file = file,
                                        !.tarred = bcall.tarred,
                                        !.before = files, !.status = "ok"]
  /\ op' = "add_file"
  /\ nb' = nb + 1
  /\ UNCHANGED <<tar, nonBundleVars>>

\* bundle.parse_file(path, reader)
ParseFile ==
  /\ CanFill
  /\ \E path \in SamplePaths, bytes \in Sources :
       \E r \in {parse_file(files, path, bytes)} :
         /\ files' = r.files
         /\ bcall' = [NoBundleCall EXCEPT
                        !.fn = "parse_file", !.path = path, !.tarred = bcall.tarred,
                        !.items = <<Item(path, bytes)>>, !.before = files,
                        !.status = r.status]
  /\ op' = "parse_file"
  /\ nb' = nb + 1
  /\ UNCHANGED <<tar, nonBundleVars>>

\* bundle.parse_files(items)
ParseFiles ==
  /\ CanFill
  /\ \E items \in ItemSeqs :
       \E r \in {parse_files(files, items, 1)} :
         /\ files' = r.files
         /\ bcall' = [NoBundleCall EXCEPT
                        !.fn = "parse_files", !.items = items, !.before = files,
                        !.tarred = bcall.tarred,
                        !.status = r.status, !.pulled = r.pulled]
  /\ op' = "parse_files"
  /\ nb' = nb + 1
  /\ UNCHANGED <<tar, nonBundleVars>>

\* bundle.parse_tar(prefix, tar), on an archive of the environment or, with
\* the prefix it was written with, on the one the last write_tar wrote.
ParseTar ==
  /\ \E prefix \in Prefixes, reimport \in BOOLEAN :
       \E entries \in IF reimport THEN {Archived(tar.entries)} ELSE Archives :
         /\ IF reimport THEN op = "create" /\ prefix = tar.prefix ELSE CanFill
         /\ \E r \in {parse_tar(files, prefix, entries)} :
              /\ files' = r.files
              /\ bcall' = [NoBundleCall EXCEPT
                             !.fn = "parse_tar", !.prefix = prefix,
                             !.entries = entries, !.before = files,
                             !.status = r.status, !.pulled = r.pulled,
                             !.reimport = reimport, !.tarred = TRUE]
  /\ op' = "parse_tar"
  /\ nb' = nb + 1
  /\ UNCHANGED <<tar, nonBundleVars>>

\* bundle.write_files(prefix, supplier), with a supplier that runs the writer
\* and returns Ok, but returns an Err at its call fail_at (0: never).
WriteFiles ==
  /\ CanWrite
  /\ \E prefix \in Prefixes, fail_at \in 0..MaxItems :
       \E w \in {write_files(files, prefix, Callback(fail_at), 1, <<>>)} :
         bcall' = [NoBundleCall EXCEPT
                     !.fn = "write_files", !.prefix = prefix, !.fail_at = fail_at,
                     !.tarred = bcall.tarred,
                     !.before = files, !.status = w.status, !.visited = w.visited]
  /\ op' = "write_files"
  /\ nb' = nb + 1
  /\ UNCHANGED <<files, tar, nonBundleVars>>

\* bundle.write_tar(prefix, tar)
WriteTar ==
  /\ CanWrite
  /\ \E prefix \in Prefixes, accepts_empty \in BOOLEAN :
       \E w \in {write_tar(files, prefix, accepts_empty)} :
         /\ bcall' = [NoBundleCall EXCEPT
                        !.fn = "write_tar", !.prefix = prefix, !.before = files,
                        !.tarred = bcall.tarred,
                        !.status = w.status, !.visited = w.visited]
         /\ tar' = [written |-> TRUE, prefix |-> prefix, stored |-> files,
                    status |-> w.status, entries |-> w.visited]
  /\ op' = "write_tar"
  /\ nb' = nb + 1
  /\ UNCHANGED <<files, nonBundleVars>>

\* Bundle::create(), for a second bundle to read the written archive into.
Create ==
  /\ op = "write_tar"
  /\ files' = <<>>
  /\ bcall' = [NoBundleCall EXCEPT !.fn = "create", !.before = files, !.status = "ok"]
  /\ op' = "create"
  /\ UNCHANGED <<tar, nb, nonBundleVars>>

NextBundle ==
  \/ AddFile
  \/ ParseFile
  \/ ParseFiles
  \/ ParseTar
  \/ WriteFiles
  \/ WriteTar
  \/ Create

NextFile ==
  \/ DecodeHeader
  \/ DecodeFile

NextAttr ==
  \/ Feed
  \/ New
  \/ Decode
  \/ Encode
  \/ Clone
  \/ WithFlags
  \/ FlagsMut
  \/ Downcast
  \/ DecodeFlags

NextVersion ==
  \/ IsCompatible
  \/ VersionNew
  \/ VersionParse
  \/ DecodeVersion

Next == NextAttr \/ NextVersion \/ NextFile \/ NextBundle

\* The attribute container.
SpecAttr == Init /\ [][NextAttr]_vars

\* The version envelope.
SpecVersion == Init /\ [][NextVersion]_vars

\* The header and the file behind it.
SpecFile == Init /\ [][NextFile]_vars

\* The bundle and its archive mapping.
SpecBundle == Init /\ [][NextBundle]_vars

Spec == Init /\ [][Next]_vars

\* ------------------------------------------------------------------ claims

\* What the claims say of a fed attribute, read off the bytes' fields.

\* The id is registered for a type that may attach to kind K.
Resolves(id, K) ==
  \E i \in DOMAIN Registry :
    /\ Registry[i].id = id
    /\ (Registry[i].target.some => K \in Registry[i].target.arr)

\* No bit outside 0xFF80_0001 is set.
LegalWord(f) == f[1] % 128 = 0 /\ f[2] < 2

\* Bit 0 is set.
IgnorableWord(f) == f[2] % 2 = 1

\* No bit of 0xFF80_0000 is set.
ReservedZero(f) == f[1] \div 128 = 0

\* The state after decoding a fed attribute, and the states that follow it
\* with no change to the attribute.
FedDecoded == fed.payload.shape # "none" /\ op = "decode" /\ sent = Absent

FedEncoded == fed.payload.shape # "none" /\ op = "encode"

\* The fed bytes are id, flags, length and exactly length bytes of payload.
FedWhole == fed.declared = Len(fed.payload.bytes)

\* C1: an attribute whose id does not resolve for the entity kind, with legal
\* flags that have the ignorable bit, decodes to an Unknown payload holding
\* the payload bytes verbatim, and encoding it writes the input bytes again.
C1_UnknownIgnorableRoundTrip ==
  (fed.payload.shape # "none" /\ FedWhole /\ ~Resolves(fed.id, targ)
     /\ LegalWord(fed.flags) /\ IgnorableWord(fed.flags))
  => /\ FedDecoded =>
          /\ result.status = "ok"
          /\ attr.id = fed.id
          /\ attr.flags = fed.flags
          /\ attr.payload.variant = "Unknown"
          /\ attr.payload.bytes = fed.payload.bytes
     /\ FedEncoded => result.status = "ok" /\ stream = fed.bytes

C1_Witness ==
  /\ FedEncoded /\ FedWhole
  /\ ~Resolves(fed.id, targ)
  /\ fed.flags = <<65408, 1>>
  /\ Len(fed.payload.bytes) > 8
  /\ stream = fed.bytes

\* C2: an attribute whose id does not resolve for the entity kind and whose
\* flags lack the ignorable bit never decodes: the decode ends in an error and
\* yields no attribute, whatever the payload; when the flags are legal and the
\* declared bytes are there, the error is the not-recognized one.
C2_UnknownNotIgnorableFails ==
  (FedDecoded /\ ~Resolves(fed.id, targ) /\ ~IgnorableWord(fed.flags))
  => /\ result.status \notin {"ok", "none"}
     /\ ~HasAttr
     /\ (LegalWord(fed.flags) /\ fed.declared <= Len(fed.payload.bytes))
          => result.status = "NotRecognized"

C2_Witness ==
  /\ FedDecoded
  /\ ~Resolves(fed.id, targ)
  /\ fed.id = ID("SafetyHint")
  /\ fed.payload.shape = "exact"
  /\ fed.flags = <<128, 0>>
  /\ result.status = "NotRecognized"

\* C3: decoding the encoding of Attribute::<K>::new(x) gives the attribute
\* back: id T::ID, empty flags, a Real payload equal to x.
C3_RegisteredRoundTrip ==
  (op = "decode" /\ origin = "new" /\ nops = 0)
  => /\ sent.payload.variant = "Real"
     /\ result.status = "ok"
     /\ attr.id = ID(sent.payload.ty)
     /\ attr.flags = <<0, 0>>
     /\ attr.payload.variant = "Real"
     /\ attr.payload.ty = sent.payload.ty
     /\ attr.payload.val = sent.payload.val
     /\ attr = sent
     /\ result.pos = Len(stream)

C3_Witness ==
  /\ op = "decode" /\ origin = "new" /\ nops = 0
  /\ sent.payload.ty = "SubsystemDescriptor"
  /\ sent.payload.val[2] = <<1, 40000, 7>>
  /\ attr = sent

\* C4: the registry matches (id, K) iff the id is registered and its kinds
\* are unrestricted or contain K; an id that does not match, a registered id
\* on another kind included, is kept opaque if ignorable and fails otherwise,
\* and an id that matches never is.
C4_RegistryLookup ==
  (FedDecoded /\ LegalWord(fed.flags) /\ fed.declared <= Len(fed.payload.bytes))
  => /\ result.lookup
     /\ Resolves(fed.id, targ) =>
          /\ result.status # "NotRecognized"
          /\ HasAttr => attr.payload.variant = "Real" /\ ID(attr.payload.ty) = fed.id
     /\ ~Resolves(fed.id, targ) =>
          IF IgnorableWord(fed.flags)
          THEN result.status = "ok" /\ attr.payload.variant = "Unknown"
          ELSE result.status = "NotRecognized" /\ ~HasAttr

C4_Witness ==
  /\ FedDecoded /\ FedWhole
  /\ fed.id = ID("SafetyHint")
  /\ targ = "Struct"
  /\ fed.payload.shape = "exact"
  /\ fed.flags = <<0, 1>>
  /\ attr.payload.variant = "Unknown"

\* C5: a flag word with a bit outside the defined flag bits is rejected by
\* the flags decode, and the attribute decode fails there, whatever the id,
\* before the registry is consulted or the length and body are read.
C5_IllegalFlagsRejected ==
  /\ (op = "flags_decode" /\ ~LegalWord(fed.flags)) => result.status = "IllegalFlags"
  /\ (FedDecoded /\ ~LegalWord(fed.flags))
       => /\ result.status = "IllegalFlags"
          /\ ~result.lookup
          /\ ~result.body
          /\ result.pos = 20
          /\ ~HasAttr

C5_Witness ==
  /\ FedDecoded
  /\ fed.flags = <<64, 1>>
  /\ Resolves(fed.id, targ)
  /\ fed.payload.shape = "exact" /\ FedWhole
  /\ result.status = "IllegalFlags"

\* C6: the reserved region 0xFF80_0000 of the flags is zero in every decoded
\* flag word and in every decoded attribute.
C6_ReservedRegionZero ==
  /\ (op = "flags_decode" /\ result.status = "ok") => ReservedZero(attr.flags)
  /\ (op = "decode" /\ HasAttr) => ReservedZero(attr.flags)

\* C7: downcast for a type other than the one the attribute was made as is
\* absent, downcast of an Unknown payload is absent, and a present answer is
\* the payload of the type registered for the attribute's id.
C7_DowncastSafety ==
  op = "downcast"
  => /\ attr.id # ID(dc.ty) => ~dc.present
     /\ attr.payload.variant = "Unknown" => ~dc.present
     /\ dc.present =>
          /\ attr.payload.variant = "Real"
          /\ attr.payload.ty = dc.ty
          /\ attr.id = ID(dc.ty)
          /\ dc.val = attr.payload.val

C7_Witness ==
  /\ op = "downcast" /\ origin = "new"
  /\ targ = "File"
  /\ attr.payload.ty = "ToolComment"
  /\ dc.ty = "SubsystemDescriptor"
  /\ ~dc.present

\* C8: in every attribute reachable through decode, new, clone, with_flags
\* and assignments through flags_mut, an Unknown payload has the ignorable
\* flag set.
C8_UnknownImpliesIgnorable ==
  (HasAttr /\ attr.payload.variant = "Unknown") => IgnorableWord(attr.flags)

\* C9: for an id that resolves, decode reads exactly the declared bytes and
\* succeeds only if the type's decode consumes them all; trailing bytes or a
\* malformed slot fail the decode, with the ignorable flag set as well, and
\* never give an Unknown payload.
C9_KnownPayloadExact ==
  (FedDecoded /\ Resolves(fed.id, targ) /\ LegalWord(fed.flags))
  => /\ HasAttr => attr.payload.variant = "Real"
     /\ result.status = "ok" <=> HasAttr
     /\ fed.declared <= Len(fed.payload.bytes) =>
          /\ result.pos = 24 + fed.declared
          /\ result.status = "ok" <=>
               LET d == decode_from_slice(CHOOSE t \in Types : ID(t) = fed.id,
                                          SubSeq(fed.payload.bytes, 1, fed.declared))
               IN  d.ok /\ d.pos = fed.declared
     /\ fed.declared > Len(fed.payload.bytes) => result.status = "UnexpectedEnd"
     /\ (FedWhole /\ fed.payload.shape = "exact") =>
          /\ result.status = "ok"
          /\ attr.payload.val \in Samples(attr.payload.ty)
     /\ (FedWhole /\ fed.payload.shape = "trailing") => result.status = "ExtraSlop"
     /\ (FedWhole /\ fed.payload.shape = "truncated") => result.status = "UnexpectedEnd"

C9_Witness ==
  /\ FedDecoded /\ FedWhole
  /\ Resolves(fed.id, targ)
  /\ fed.flags = <<0, 1>>
  /\ fed.payload.shape = "trailing"
  /\ fed.payload.ty = "ItemDoc"
  /\ result.status = "ExtraSlop"
  /\ ~HasAttr

\* C10: a.is_compatible(b) iff the majors are equal and, for a nonzero major,
\* a.minor <= b.minor, for major zero, a.minor = b.minor; 1.2 with 1.5 yes,
\* 1.5 with 1.2 no, 0.3 with 0.3 yes, 0.3 with 0.4 no.
C10_IsCompatible ==
  op = "is_compatible"
  => /\ compat <=>
          /\ ver_a \div 512 = ver_b \div 512
          /\ IF ver_a \div 512 # 0
             THEN ver_a % 512 <= ver_b % 512
             ELSE ver_a % 512 = ver_b % 512
     /\ (ver_a = 512 + 2 /\ ver_b = 512 + 5) => compat
     /\ (ver_a = 512 + 5 /\ ver_b = 512 + 2) => ~compat
     /\ (ver_a = 3 /\ ver_b = 3) => compat
     /\ (ver_a = 3 /\ ver_b = 4) => ~compat

C10_Witness == op = "is_compatible" /\ ver_a = 3 /\ ver_b = 4 /\ ~compat

\* The order of two (major, minor) pairs, major first.
LexOrder(M1, m1, M2, m2) ==
  IF M1 < M2 \/ (M1 = M2 /\ m1 < m2) THEN "Less"
  ELSE IF M1 = M2 /\ m1 = m2 THEN "Equal"
  ELSE "Greater"

\* C11: Version::new(major, minor) faults iff major >= 128 or minor >= 512;
\* otherwise the packed value is major * 512 + minor, below 65536, major() and
\* minor() give the arguments back, and two versions compare as their
\* (major, minor) pairs do.  Every Version, one decoded from any two bytes
\* included, has major() < 128 and minor() < 512.
C11_VersionPacking ==
  /\ op = "version_new" =>
       /\ vcall.out.faulted <=> (vcall.maj >= 128 \/ vcall.min >= 512)
       /\ ~vcall.out.faulted =>
            /\ vcall.out.val = vcall.maj * 512 + vcall.min
            /\ vcall.out.val < 65536
            /\ major(vcall.out.val) = vcall.maj
            /\ minor(vcall.out.val) = vcall.min
       /\ (vprev.fn = "new" /\ ~vprev.out.faulted /\ ~vcall.out.faulted) =>
            cmp(vprev.out.val, vcall.out.val)
              = LexOrder(vprev.maj, vprev.min, vcall.maj, vcall.min)
  /\ op = "version_decode" => vcall.out.val = vcall.maj * 256 + vcall.min
  /\ (op \in {"version_new", "version_parse", "version_decode"} /\ ~vcall.out.faulted) =>
       major(vcall.out.val) < 128 /\ minor(vcall.out.val) < 512

C11_Witness ==
  /\ op = "version_new"
  /\ vprev.fn = "new" /\ vprev.maj = 1 /\ vprev.min = 511
  /\ vcall.maj = 2 /\ vcall.min = 0
  /\ vprev.out.val = 1023 /\ vcall.out.val = 1024
  /\ cmp(vprev.out.val, vcall.out.val) = "Less"

\* The version field of the bytes of a file: bytes 7 and 8, little endian.
WireVersion(b) == DecU16(SubSeq(b, 7, 8))

\* C12: decoding a header or a file from bytes whose first six differ from
\* MAGIC fails with the magic error when the reader has taken those six bytes
\* and nothing more: the version and the body are not read.  (Fewer than six
\* bytes fail as well.)
C12_BadMagicRejected ==
  op \in {"decode_header", "decode_file"}
  => /\ (Len(loaded.bytes) >= 6 /\ SubSeq(loaded.bytes, 1, 6) # MAGIC)
          => /\ ~loaded.res.ok
             /\ loaded.res.err = "Invalid Magic Number"
             /\ loaded.res.pos = 6
     /\ Len(loaded.bytes) < 6 => ~loaded.res.ok /\ loaded.res.pos = 0

C12_Witness ==
  /\ op = "decode_file"
  /\ loaded.bytes = Patch(FileEncode(FullFile), 6, 67)
  /\ WireVersion(loaded.bytes) = 512
  /\ loaded.res.err = "Invalid Magic Number"

\* C13: decoding a file whose header version is not compatible with the
\* build's CURRENT_VERSION (in either direction of is_compatible) fails and
\* gives no File.
C13_VersionCheckedAtLoad ==
  (/\ op = "decode_file"
   /\ Len(loaded.bytes) >= 8
   /\ SubSeq(loaded.bytes, 1, 6) = MAGIC
   /\ ~is_compatible(WireVersion(loaded.bytes), loaded.current)
   /\ ~is_compatible(loaded.current, WireVersion(loaded.bytes)))
  => ~loaded.res.ok

\* The keys of a bundle, in its order.
Keys(fs) == [i \in 1..Len(fs) |-> fs[i].path]

KeySet(fs) == {fs[i].path : i \in 1..Len(fs)}

\* C14: whatever add_file, parse_file and parse_files calls filled the bundle,
\* every stored key begins with the bundle's prefix, the one its caller exports
\* with, and the export does not trip the prefix assertion.
C14_PrefixInvariant ==
  (op \in {"write_files", "write_tar"} /\ ~bcall.tarred)
  => /\ \A i \in 1..Len(files) : starts_with(files[i].path, bcall.prefix)
     /\ bcall.status # "panic"

\* An item that ends parse_files: an I/O error, or bytes that do not decode.
Fails(item) == item.io \/ ~decode_from_std_read(item.bytes).ok

\* The first such item of a sequence; Len + 1 if there is none.
FirstFailing(items) ==
  IF \E i \in 1..Len(items) : Fails(items[i])
  THEN CHOOSE i \in 1..Len(items) :
         Fails(items[i]) /\ \A j \in 1..(i - 1) : ~Fails(items[j])
  ELSE Len(items) + 1

\* The file of the last of the first n items that has the path.
LastFileFor(items, n, path) ==
  decode_from_std_read(
    items[CHOOSE i \in 1..n :
            items[i].path = path /\ \A j \in (i + 1)..n : items[j].path # path].bytes).val

\* What holds of the bundle once the first k - 1 items are in and nothing else.
HoldsItemsBefore(items, k) ==
  /\ KeySet(files) = KeySet(bcall.before) \cup {items[i].path : i \in 1..(k - 1)}
  /\ \A i \in 1..Len(files) :
       files[i].file =
         IF \E j \in 1..(k - 1) : items[j].path = files[i].path
         THEN LastFileFor(items, k - 1, files[i].path)
         ELSE get(bcall.before, files[i].path).file
  /\ SubSeq(Keys(files), 1, Len(bcall.before)) = Keys(bcall.before)

\* C15: parse_files takes the items in order and ends at the first that is
\* an I/O error or does not decode, with that error: the items before it are
\* in the bundle, it and the later ones are not, and no later item is pulled.
\* A parse_file that fails leaves the bundle as it was.
C15_ParseFilesFailFast ==
  /\ op = "parse_files" =>
       /\ bcall.status = "ok" <=> FirstFailing(bcall.items) > Len(bcall.items)
       /\ bcall.status = "ok" => bcall.pulled = Len(bcall.items)
       /\ bcall.status # "ok" =>
            /\ bcall.pulled = FirstFailing(bcall.items)
            /\ bcall.status =
                 IF bcall.items[bcall.pulled].io THEN "Io"
                 ELSE decode_from_std_read(bcall.items[bcall.pulled].bytes).err
       /\ HoldsItemsBefore(bcall.items, FirstFailing(bcall.items))
  /\ (op = "parse_file" /\ bcall.status # "ok") => files = bcall.before
  /\ (op = "parse_file" /\ bcall.status = "ok") => HoldsItemsBefore(bcall.items, 2)

C15_Witness ==
  /\ op = "parse_files"
  /\ bcall.before = <<Stored(<<SegB>>, FullFile)>>
  /\ bcall.items = <<Item(<<SegA>>, FileEncode(EmptyFile(1))),
                     Item(<<SegA, SegB>>, FileEncode(UnreadableFile)),
                     Item(<<SegB>>, FileEncode(EmptyFile(1)))>>
  /\ bcall.status = "NotRecognized"
  /\ bcall.pulled = 2
  /\ files = <<Stored(<<SegB>>, FullFile), Stored(<<SegA>>, EmptyFile(1))>>

\* Segments joined by the platform separator.
RECURSIVE Joined(_)
Joined(segs) ==
  IF segs = <<>> THEN <<>>
  ELSE IF Len(segs) = 1 THEN segs[1]
  ELSE segs[1] \o <<MAIN_SEPARATOR>> \o Joined(Tail(segs))

\* A key is the prefix followed by separator-free segments that, joined and
\* with ".imt" appended, give the name.
MapsTo(prefix, name, key) ==
  /\ Len(key) > Len(prefix)
  /\ SubSeq(key, 1, Len(prefix)) = prefix
  /\ \A i \in (Len(prefix) + 1)..Len(key) :
       \A j \in 1..Len(key[i]) : key[i][j] # MAIN_SEPARATOR
  /\ Joined(SubSeq(key, Len(prefix) + 1, Len(key))) \o IMT = name

\* An entry that is imported: readable, with a name that ends in ".imt".
Survives(e) ==
  /\ e.kind = "ok"
  /\ Len(e.name) >= Len(IMT)
  /\ SubSeq(e.name, Len(e.name) - Len(IMT) + 1, Len(e.name)) = IMT

\* An entry that ends the import.
Aborts(e) ==
  \/ e.kind = "io_error"
  \/ Survives(e) /\ ~decode_from_std_read(e.bytes).ok

FirstAborting(es) ==
  IF \E i \in 1..Len(es) : Aborts(es[i])
  THEN CHOOSE i \in 1..Len(es) : Aborts(es[i]) /\ \A j \in 1..(i - 1) : ~Aborts(es[j])
  ELSE Len(es) + 1

\* The file of the last surviving entry before the k-th that maps to the key.
LastEntryFor(prefix, es, k, key) ==
  decode_from_std_read(
    es[CHOOSE i \in 1..(k - 1) :
         /\ Survives(es[i]) /\ MapsTo(prefix, es[i].name, key)
         /\ \A j \in (i + 1)..(k - 1) :
              ~(Survives(es[j]) /\ MapsTo(prefix, es[j].name, key))].bytes).val

ImportedBefore(prefix, es, k) ==
  /\ \A i \in 1..(k - 1) :
       Survives(es[i]) => \E j \in 1..Len(files) : MapsTo(prefix, es[i].name, files[j].path)
  /\ \A j \in 1..Len(files) :
       IF \E i \in 1..(k - 1) : Survives(es[i]) /\ MapsTo(prefix, es[i].name, files[j].path)
       THEN files[j].file = LastEntryFor(prefix, es, k, files[j].path)
       ELSE j <= Len(bcall.before) /\ files[j] = bcall.before[j]
  /\ SubSeq(Keys(files), 1, Len(bcall.before)) = Keys(bcall.before)
  /\ (\A i \in 1..(k - 1) : ~Survives(es[i])) => files = bcall.before

\* C16: parse_tar imports each readable entry whose name ends in ".imt" under
\* the prefix followed by the segments of the rest of the name ("mod/sub.imt"
\* under mod, sub), decoded as parse_file decodes; it skips the other names
\* ("readme.txt") without an error or a change; an entry that does not decode
\* ends the import with its error.
C16_TarImport ==
  op = "parse_tar" =>
    /\ bcall.status = "ok" <=> FirstAborting(bcall.entries) > Len(bcall.entries)
    /\ bcall.status # "ok" =>
         bcall.status =
           IF bcall.entries[FirstAborting(bcall.entries)].kind = "io_error" THEN "Io"
           ELSE decode_from_std_read(bcall.entries[FirstAborting(bcall.entries)].bytes).err
    /\ ImportedBefore(bcall.prefix, bcall.entries, FirstAborting(bcall.entries))
    /\ (\E i \in 1..(FirstAborting(bcall.entries) - 1) :
          bcall.entries[i].kind = "ok" /\ bcall.entries[i].name = NameModSub)
       => get(files, bcall.prefix \o <<SegMod, SegSub>>).some
    /\ (\A i \in 1..Len(bcall.entries) :
          bcall.entries[i].kind = "ok" /\ bcall.entries[i].name = NameReadme)
       => bcall.status = "ok" /\ files = bcall.before

C16_Witness ==
  /\ op = "parse_tar"
  /\ bcall.prefix = <<SegA>>
  /\ bcall.entries = <<TarEntry("ok", NameReadme, FileEncode(UnreadableFile)),
                       TarEntry("ok", NameModSub, FileEncode(FullFile)),
                       TarEntry("ok", SegB \o IMT, FileEncode(UnreadableFile))>>
  /\ bcall.before = <<Stored(<<SegB>>, EmptyFile(1))>>
  /\ bcall.status = "NotRecognized"
  /\ files = <<Stored(<<SegB>>, EmptyFile(1)), Stored(<<SegA, SegMod, SegSub>>, FullFile)>>

\* C17: write_tar writes one entry per stored file, named by the segments of
\* its key after the prefix, joined by the separator, with ".imt" appended;
\* reading the written archive into a new bundle with the same prefix gives
\* the keys of the exported bundle, a key equal to the prefix among them.
C17_TarRoundTrip ==
  /\ (/\ op = "write_tar"
      /\ \A i \in 1..Len(files) : starts_with(files[i].path, bcall.prefix))
     => /\ bcall.status = "ok"
        /\ Len(bcall.visited) = Len(files)
        /\ \A i \in 1..Len(files) :
             /\ bcall.visited[i].ok
             /\ bcall.visited[i].name =
                  Joined(SubSeq(files[i].path, Len(bcall.prefix) + 1,
                                Len(files[i].path))) \o IMT
  /\ (/\ op = "parse_tar" /\ bcall.reimport
      /\ \A i \in 1..Len(tar.stored) : starts_with(tar.stored[i].path, tar.prefix))
     => /\ bcall.status = "ok"
        /\ Keys(files) = Keys(tar.stored)

\* The distinct paths of a sequence, each at its first place, after those seen.
RECURSIVE FirstInsertions(_, _)
FirstInsertions(paths, seen) ==
  IF paths = <<>> THEN seen
  ELSE FirstInsertions(Tail(paths),
                       IF \E i \in 1..Len(seen) : seen[i] = Head(paths) THEN seen
                       ELSE Append(seen, Head(paths)))

\* The bundle is the one before with the file under the path: in the path's
\* place if it had one, at the end otherwise.
InsertedInPlace(path, file) ==
  /\ Keys(files) = FirstInsertions(<<path>>, Keys(bcall.before))
  /\ \A i \in 1..Len(files) :
       files[i].file = IF files[i].path = path THEN file ELSE bcall.before[i].file

\* C18: write_files calls the supplier once for each stored path, in the
\* order of the map, with the path after the prefix and a writer of the file's
\* bytes; it leaves the bundle as it is and returns at the first Err of the
\* supplier, later files unvisited.  An insertion under a stored path replaces
\* the file in the path's place, so the order is that of the first insertion
\* of each path and no path is stored twice.
C18_WriteOrder ==
  /\ op = "write_files" =>
       /\ files = bcall.before
       /\ Len(bcall.visited) <= Len(files)
       /\ \A i \in 1..Len(bcall.visited) :
            /\ bcall.visited[i].path =
                 SubSeq(files[i].path, Len(bcall.prefix) + 1, Len(files[i].path))
            /\ bcall.visited[i].ok <=> i # bcall.fail_at
            /\ bcall.visited[i].ok =>
                 decode_from_std_read(bcall.visited[i].bytes) =
                   Ok(files[i].file, Len(bcall.visited[i].bytes))
       /\ bcall.status = "ok" => Len(bcall.visited) = Len(files)
       /\ bcall.status = "Io" => Len(bcall.visited) = bcall.fail_at
       /\ (\A i \in 1..Len(files) : starts_with(files[i].path, bcall.prefix)) =>
            bcall.status = IF bcall.fail_at \in 1..Len(files) THEN "Io" ELSE "ok"
  /\ op = "add_file" => InsertedInPlace(bcall.path, bcall.file)
  /\ (op = "parse_file" /\ bcall.status = "ok") =>
       InsertedInPlace(bcall.items[1].path,
                       decode_from_std_read(bcall.items[1].bytes).val)
  /\ op = "parse_files" =>
       Keys(files) =
         FirstInsertions([i \in 1..(FirstFailing(bcall.items) - 1) |-> bcall.items[i].path],
                         Keys(bcall.before))
  /\ Cardinality(KeySet(files)) = Len(files)

C18_Witness ==
  /\ op = "write_files"
  /\ bcall.prefix = <<>>
  /\ bcall.fail_at = 2
  /\ files = <<Stored(<<SegA>>, FullFile), Stored(<<SegB>>, EmptyFile(1)),
               Stored(<<SegA, SegB>>, EmptyFile(1))>>
  /\ bcall.status = "Io"
  /\ Len(bcall.visited) = 2
  /\ bcall.visited[1].ok
  /\ bcall.visited[2].path = <<SegB>>

\* C19: downcast::<T>() on an attribute made by new(x), decoded from the
\* encoding of one, or cloned, gives the value x exactly when the id is the
\* one registered for T and the payload is Real.
C19_DowncastReturnsValue ==
  op = "downcast" =>
    /\ dc.present <=> (attr.id = ID(dc.ty) /\ attr.payload.variant = "Real")
    /\ dc.present => dc.val = attr.payload.val

\* The number a digit string denotes.
RECURSIVE Denotes(_)
Denotes(d) ==
  IF d = <<>> THEN 0
  ELSE Denotes(SubSeq(d, 1, Len(d) - 1)) * 10 + DigitVal(d[Len(d)])

AllDigits(d) == \A i \in 1..Len(d) : IsDigit(d[i])

\* A text is the dot at position k between a major and a minor component.
SplitsAt(t, k) ==
  /\ t[k] = "."
  /\ AllDigits(SubSeq(t, 1, k - 1))
  /\ AllDigits(SubSeq(t, k + 1, Len(t)))

\* Non-empty decimal major < 128, '.', non-empty decimal minor < 512.
WellFormedText(t) ==
  \E k \in 2..(Len(t) - 1) :
    /\ SplitsAt(t, k)
    /\ Denotes(SubSeq(t, 1, k - 1)) < 128
    /\ Denotes(SubSeq(t, k + 1, Len(t))) < 512

\* C20: Version::parse faults unless the text is a non-empty decimal major
\* below 128, a '.', and a non-empty decimal minor below 512, and otherwise
\* returns the version with the denoted major and minor.
C20_ParseBounds ==
  op = "version_parse"
  => /\ ~vcall.out.faulted <=> WellFormedText(vcall.text)
     /\ ~vcall.out.faulted =>
          \E k \in 2..(Len(vcall.text) - 1) :
            /\ SplitsAt(vcall.text, k)
            /\ major(vcall.out.val) = Denotes(SubSeq(vcall.text, 1, k - 1))
            /\ minor(vcall.out.val) = Denotes(SubSeq(vcall.text, k + 1, Len(vcall.text)))

====
